---- MODULE Spec2Model ----
(***************************************************************************)
(* Model of the Predico wallet client API: the /user routes                *)
(* (src/app/routes/user.py) and the /wallet routes                         *)
(* (src/app/routes/wallet.py).  Every route handler is one action; the     *)
(* state is the local credential store (users, cached upstream tokens),    *)
(* the selected payment backend, the clock, and the last request together  *)
(* with the response it produced and the external calls it made.           *)
(***************************************************************************)
EXTENDS Integers, Sequences, FiniteSets, Bags, TLC

VARIABLES
    users,        \* the users table: a bag of rows [email, password_hash]
    tokens,       \* the tokens table: set of rows [user_email, token]
    backend,      \* the payment processor selected at start-up
    now,          \* the clock
    client,       \* the refresh token the caller kept from its last token response
    provisioned,  \* emails whose register / social-login the upstream accepted
    req,          \* the last request and the outcomes of the externals it met
    resp,         \* the response to the last request
    calls         \* the external / persistence calls the last request made, in order

vars == <<users, tokens, backend, now, client, provisioned, req, resp, calls>>

----------------------------------------------------------------------------
(* Bounds *)

MaxTime == 2

Emails == {"a@x", "b@x"}

Passwords == {"p1", "p2"}

UpstreamTokens == {"u1"}

\* make_request raised requests.exceptions.ConnectionError instead of answering
ConnectionError == 0

\* status codes the upstream market server answers with
UpstreamStatus == {200, 201, 401, 409}

UpstreamOutcome == UpstreamStatus \cup {ConnectionError}

Backends == {"IOTA", "Ethereum"}

----------------------------------------------------------------------------
(* Token service (app.dependencies, app.crud) *)

\* lifetime of a local refresh token, in clock ticks
RefreshTTL == 2

\* lifetime of a local access token, in clock ticks
AccessTTL == 1

NoToken == [sub |-> "", kind |-> "none", exp |-> 0, sig |-> FALSE]

create_access_token(sub) ==
    [sub |-> sub, kind |-> "access", exp |-> now + AccessTTL, sig |-> TRUE]

create_refresh_token(sub) ==
    [sub |-> sub, kind |-> "refresh", exp |-> now + RefreshTTL, sig |-> TRUE]

\* a token passes the check when its signature verifies and it has not expired
TokenValid(t) == t.sig /\ now < t.exp

\* pwd_context.hash and its verification
Hash(p) == <<"hash", p>>

\* the password social-login draws from uuid4(): nobody types it
RandomPassword == "uuid4"

UserRow(email, password) == [email |-> email, password_hash |-> Hash(password)]

\* db.query(User).filter(User.email == email)
UserRows(email) == {r \in BagToSet(users) : r.email = email}

HasUser(email) == UserRows(email) # {}

\* .first()
FirstUser(email) == CHOOSE r \in UserRows(email) : TRUE

\* number of rows of the users table carrying this email
RowCount(email) ==
    LET rows == UserRows(email)
        cnt[S \in SUBSET rows] ==
            IF S = {} THEN 0
            ELSE LET r == CHOOSE x \in S : TRUE IN CopiesIn(r, users) + cnt[S \ {r}]
    IN cnt[rows]

\* db.add(new_user); db.commit()
db_add(row) == users (+) SetToBag({row})

\* authenticate_user(email, password, db): the row, when the password verifies
authenticate_user(email, password) ==
    HasUser(email) /\ FirstUser(email).password_hash = Hash(password)

\* add_token(db, user_email, token)
add_token(email, tok) == tokens \cup {[user_email |-> email, token |-> tok]}

----------------------------------------------------------------------------
(* Requests, responses, calls *)

NoReq == [route |-> "none", email |-> "", password |-> "", up |-> ConnectionError,
          upEmail |-> "", token |-> NoToken, pay |-> "none", acct |-> "none",
          sdk |-> "none"]

Response(st, body) == [status |-> st, access |-> NoToken, refresh |-> NoToken, body |-> body]

TokenResponse(a, r) == [status |-> 200, access |-> a, refresh |-> r, body |-> "tokens"]

Call(op, arg) == [op |-> op, arg |-> arg]

\* an exception no handler catches: the framework answers 500
Unhandled == Response(500, "Internal Server Error")

\* HTTPException(status_code, detail) reaching the framework
HTTPException(st, detail) == Response(st, detail)

\* a refresh token signed before this start-up with the same secret (the users
\* table was recreated since): it expires at tick 1
LegacyToken == [sub |-> "a@x", kind |-> "refresh", exp |-> 1, sig |-> TRUE]

Init ==
    /\ users = EmptyBag
    /\ tokens = {}
    /\ backend \in Backends
    /\ now = 0
    /\ client \in {NoToken, LegacyToken}
    /\ provisioned = {}
    /\ req = NoReq
    /\ resp = Response(0, "none")
    /\ calls = <<>>

----------------------------------------------------------------------------
(* POST /user/register *)

RegisterInsertAlways(email, password) == db_add(UserRow(email, password))

\* the lookup and insert of register_user
RegisterInsert(email, password) ==
    IF HasUser(email) THEN users ELSE db_add(UserRow(email, password))

\* the status register_user answers with once the upstream said 201 or 409
RegisterStatus(payRaises) == 201

register_user(email, password, up, payRaises) ==
    /\ req' = [NoReq EXCEPT !.route = "register", !.email = email, !.up = up,
                            !.pay = IF up \in {201, 409}
                                    THEN (IF payRaises THEN "raise" ELSE "ok")
                                    ELSE "none"]
    /\ IF up = ConnectionError
       THEN /\ resp' = Response(503, "error")
            /\ calls' = <<Call("make_request", "/user/register/")>>
            /\ UNCHANGED <<users, provisioned>>
       ELSE IF up \in {201, 409}
       THEN /\ users' = RegisterInsert(email, password)
            /\ calls' = <<Call("make_request", "/user/register/")>>
                        \o (IF HasUser(email) THEN <<>> ELSE <<Call("db.add", email)>>)
                        \o <<Call("create_account", email)>>
            /\ resp' = Response(RegisterStatus(payRaises),
                                IF payRaises THEN "error" ELSE "upstream_body")
            /\ provisioned' = provisioned \cup {email}
       ELSE /\ resp' = HTTPException(up, "upstream_body")
            /\ calls' = <<Call("make_request", "/user/register/")>>
            /\ UNCHANGED <<users, provisioned>>
    /\ UNCHANGED <<tokens, backend, now, client>>

Register ==
    \E email \in Emails, password \in Passwords, up \in UpstreamOutcome,
       payRaises \in BOOLEAN :
        register_user(email, password, up, payRaises)

----------------------------------------------------------------------------
(* POST /user/login *)

LoginUpstreamCreated(up) == up = 201

LoginUpstreamAny(up) == TRUE

\* the upstream status on which login caches the token and answers with tokens
LoginUpstreamOk(up) == up = 200

LoginRejectedUnknownOnly(email, password) == ~HasUser(email)

\* "if not user": the local password check of login failed
LoginRejected(email, password) == ~authenticate_user(email, password)

login(email, password, up, tok) ==
    /\ req' = [NoReq EXCEPT !.route = "login", !.email = email, !.password = password,
                            !.up = up]
    /\ IF up = ConnectionError
       THEN \* make_request raises outside any try block
            /\ resp' = Unhandled
            /\ calls' = <<Call("make_request", "/token")>>
            /\ UNCHANGED <<tokens, client>>
       ELSE IF LoginRejected(email, password)
       THEN /\ resp' = HTTPException(400, "Incorrect username or password")
            /\ calls' = <<Call("make_request", "/token")>>
            /\ UNCHANGED <<tokens, client>>
       ELSE IF LoginUpstreamOk(up)
       THEN /\ tokens' = add_token(email, tok)
            /\ calls' = <<Call("make_request", "/token"), Call("add_token", email),
                          Call("add_task", email)>>
            /\ resp' = TokenResponse(create_access_token(email), create_refresh_token(email))
            /\ client' = resp'.refresh
       ELSE /\ resp' = HTTPException(up, "Failed to login")
            /\ calls' = <<Call("make_request", "/token")>>
            /\ UNCHANGED <<tokens, client>>
    /\ UNCHANGED <<users, backend, now, provisioned>>

Login ==
    \E email \in Emails, password \in Passwords, up \in UpstreamOutcome,
       tok \in UpstreamTokens :
        login(email, password, up, tok)

----------------------------------------------------------------------------
(* POST /user/social-login *)

SocialInsertNever(email) == users

\* the lookup and insert of social-login
SocialInsert(email) ==
    IF HasUser(email) THEN users ELSE db_add(UserRow(email, RandomPassword))

\* the blanket "except Exception" of social-login
SocialExcept == Response(500, "error")

social_login(up, upEmail, tok, payRaises) ==
    LET created == up = 201 /\ ~HasUser(upEmail)
        raised  == created /\ payRaises
    IN
    /\ req' = [NoReq EXCEPT !.route = "social-login", !.up = up,
                            !.upEmail = IF up = 201 THEN upEmail ELSE "",
                            !.pay = IF created
                                    THEN (IF payRaises THEN "raise" ELSE "ok")
                                    ELSE "none"]
    /\ IF up = ConnectionError
       THEN /\ resp' = SocialExcept
            /\ calls' = <<Call("make_request", "/token/social")>>
            /\ UNCHANGED <<users, tokens, client, provisioned>>
       ELSE IF up # 201
       THEN \* the HTTPException raised in the try block is caught by its except
            /\ resp' = SocialExcept
            /\ calls' = <<Call("make_request", "/token/social")>>
            /\ UNCHANGED <<users, tokens, client, provisioned>>
       ELSE /\ users' = SocialInsert(upEmail)
            /\ provisioned' = provisioned \cup {upEmail}
            /\ IF raised
               THEN /\ resp' = SocialExcept
                    /\ calls' = <<Call("make_request", "/token/social"),
                                  Call("db.add", upEmail), Call("create_account", upEmail)>>
                    /\ UNCHANGED <<tokens, client>>
               ELSE /\ tokens' = add_token(upEmail, tok)
                    /\ calls' = <<Call("make_request", "/token/social")>>
                                \o (IF created
                                    THEN <<Call("db.add", upEmail),
                                           Call("create_account", upEmail)>>
                                    ELSE <<>>)
                                \o <<Call("add_token", upEmail), Call("add_task", upEmail)>>
                    /\ resp' = TokenResponse(create_access_token(upEmail),
                                             create_refresh_token(upEmail))
                    /\ client' = resp'.refresh
    /\ UNCHANGED <<backend, now>>

SocialLogin ==
    \E up \in UpstreamOutcome, upEmail \in Emails, tok \in UpstreamTokens,
       payRaises \in BOOLEAN :
        social_login(up, upEmail, tok, payRaises)

----------------------------------------------------------------------------
(* GET /user/details, PATCH /user/details *)

\* both handlers: the request runs as an authenticated local user
user_details(route, email, up) ==
    /\ HasUser(email)
    /\ req' = [NoReq EXCEPT !.route = route, !.email = email, !.up = up]
    /\ calls' = <<Call("make_request", "/user/list")>>
    /\ resp' = IF up = ConnectionError
               THEN Response(500, "error")
               ELSE Response(200, "upstream_body")
    /\ UNCHANGED <<users, tokens, backend, now, client, provisioned>>

GetDetails ==
    \E email \in Emails, up \in UpstreamOutcome : user_details("get_details", email, up)

PatchDetails ==
    \E email \in Emails, up \in UpstreamOutcome : user_details("patch_details", email, up)

----------------------------------------------------------------------------
(* POST /user/refresh *)

\* get_payload_from_refresh_token: the subject of a token that passes the check
RefreshAccepted(t) == TokenValid(t)

RefreshUserNeverMissing(email) == FALSE

\* "if not user" of post_refresh_token
RefreshUserMissing(email) == ~HasUser(email)

post_refresh_token(t) ==
    /\ req' = [NoReq EXCEPT !.route = "refresh", !.token = t]
    /\ calls' = <<>>
    /\ IF ~RefreshAccepted(t)
       THEN /\ resp' = HTTPException(401, "Invalid token")
            /\ UNCHANGED client
       ELSE IF RefreshUserMissing(t.sub)
       THEN /\ resp' = HTTPException(401, "Invalid token")
            /\ UNCHANGED client
       ELSE /\ resp' = TokenResponse(create_access_token(t.sub), create_refresh_token(t.sub))
            /\ client' = resp'.refresh
    /\ UNCHANGED <<users, tokens, backend, now, provisioned>>

\* what a caller can send: the token it kept, or one it altered or made up,
\* whose signature then no longer verifies
RefreshInputs ==
    {client} \cup {[sub |-> e, kind |-> "refresh", exp |-> x, sig |-> FALSE] :
                     e \in Emails, x \in {client.exp, now + RefreshTTL}}

Refresh ==
    \E t \in RefreshInputs : post_refresh_token(t)

----------------------------------------------------------------------------
(* Payment processor facade and the /wallet routes *)

\* how a call into the payment SDK ends: it returns, or raises a
\* WalletException or another Exception, whose text is or is not a Python literal
SdkOutcome == {"ok", "WalletException:literal", "WalletException:text",
               "Exception:literal", "Exception:text"}

IsWalletException(o) == o \in {"WalletException:literal", "WalletException:text"}

\* ast.literal_eval(str(e)) returns a value instead of raising
IsLiteral(text) == text \in {"WalletException:literal", "Exception:literal"}

\* str(e) of the HTTPException raised by get_request_funds, by framework version
HTTPExceptionText == {"400: Faucet not available for Ethereum", ""}

\* get_account_data(email).address
Address(email) == IF email = "a@x" THEN "0xA" ELSE "0xB"

\* except Exception as e: raise HTTPException(400, detail=ast.literal_eval(str(e)))
ExceptLiteralEval(text) ==
    IF IsLiteral(text) THEN HTTPException(400, "error_dict") ELSE Unhandled

\* except WalletException as e: raise HTTPException(400, detail=str(e))
ExceptStr == HTTPException(400, "error")

BalanceByEmailSwapped == backend = "Ethereum"

\* isinstance(payment_processor, IOTAPaymentController) in get_balance
BalanceByEmail == backend = "IOTA"

\* the calls of get_balance, up to the first that raises
BalanceCalls(email, acct) ==
    IF BalanceByEmail
    THEN <<Call("get_balance", email)>>
    ELSE IF acct = "ok"
    THEN <<Call("get_account_data", email), Call("get_balance", Address(email))>>
    ELSE <<Call("get_account_data", email)>>

get_balance(email, acct, bal) ==
    LET first == IF BalanceByEmail THEN "ok" ELSE acct
        out   == IF first = "ok" THEN bal ELSE first
    IN
    /\ HasUser(email)
    /\ req' = [NoReq EXCEPT !.route = "balance", !.email = email,
                            !.acct = IF BalanceByEmail THEN "none" ELSE acct,
                            !.sdk = IF first = "ok" THEN bal ELSE "none"]
    /\ calls' = BalanceCalls(email, acct)
    /\ resp' = IF out = "ok" THEN Response(200, "balance")
               ELSE IF IsWalletException(out) THEN ExceptStr
               ELSE ExceptLiteralEval(out)
    /\ UNCHANGED <<users, tokens, backend, now, client, provisioned>>

Balance ==
    \E email \in Emails, acct \in SdkOutcome, bal \in SdkOutcome :
        get_balance(email, acct, bal)

\* isinstance(payment_processor, EthereumSmartContract) in get_request_funds
FaucetRejected == backend = "Ethereum"

\* what the caller of get_request_funds gets once the faucet check has raised
\* HTTPException(400, "Faucet not available for Ethereum") inside the try block
FaucetRejection(text) == ExceptLiteralEval(text)

get_request_funds(email, acct, faucet, text) ==
    LET out == IF acct = "ok" THEN faucet ELSE acct
    IN
    /\ HasUser(email)
    /\ IF FaucetRejected
       THEN /\ req' = [NoReq EXCEPT !.route = "request_funds", !.email = email]
            /\ calls' = <<>>
            /\ resp' = FaucetRejection(text)
       ELSE /\ req' = [NoReq EXCEPT !.route = "request_funds", !.email = email,
                                    !.acct = acct,
                                    !.sdk = IF acct = "ok" THEN faucet ELSE "none"]
            /\ calls' = <<Call("get_account_data", email)>>
                        \o (IF acct = "ok"
                            THEN <<Call("request_funds", Address(email))>> ELSE <<>>)
            /\ resp' = IF out = "ok" THEN Response(200, "funds")
                       ELSE ExceptLiteralEval(out)
    /\ UNCHANGED <<users, tokens, backend, now, client, provisioned>>

RequestFunds ==
    \E email \in Emails, acct \in SdkOutcome, faucet \in SdkOutcome,
       text \in HTTPExceptionText :
        get_request_funds(email, acct, faucet, text)

----------------------------------------------------------------------------
(* The other /wallet routes *)

\* a handler that calls the SDK outside any try block
NoExcept(out, body) == IF out = "ok" THEN Response(200, body) ELSE Unhandled

get_validate_transfer(email, out) ==
    /\ HasUser(email)
    /\ req' = [NoReq EXCEPT !.route = "validate_transactions", !.email = email, !.sdk = out]
    /\ calls' = <<Call("validate_transactions", "")>>
    /\ resp' = NoExcept(out, "transactions")
    /\ UNCHANGED <<users, tokens, backend, now, client, provisioned>>

ValidateTransactions ==
    \E email \in Emails, out \in SdkOutcome : get_validate_transfer(email, out)

get_transactions_by(email, out) ==
    /\ HasUser(email)
    /\ req' = [NoReq EXCEPT !.route = "filter_transactions_by", !.email = email, !.sdk = out]
    /\ calls' = <<Call("get_transaction_by_field", "payload")>>
    /\ resp' = NoExcept(out, "transactions")
    /\ UNCHANGED <<users, tokens, backend, now, client, provisioned>>

FilterTransactions ==
    \E email \in Emails, out \in SdkOutcome : get_transactions_by(email, out)

get_wallet_address(email, acct) ==
    /\ HasUser(email)
    /\ req' = [NoReq EXCEPT !.route = "address", !.email = email, !.acct = acct]
    /\ calls' = <<Call("get_account_data", email)>>
    /\ resp' = IF acct = "ok" THEN Response(200, "account") ELSE ExceptLiteralEval(acct)
    /\ UNCHANGED <<users, tokens, backend, now, client, provisioned>>

WalletAddress ==
    \E email \in Emails, acct \in SdkOutcome : get_wallet_address(email, acct)

get_transactions(email, acct, hist) ==
    LET out == IF acct = "ok" THEN hist ELSE acct
    IN
    /\ HasUser(email)
    /\ req' = [NoReq EXCEPT !.route = "transactions", !.email = email, !.acct = acct,
                            !.sdk = IF acct = "ok" THEN hist ELSE "none"]
    /\ calls' = <<Call("get_account_data", email)>>
                \o (IF acct = "ok"
                    THEN <<Call("get_transaction_history", Address(email))>> ELSE <<>>)
    /\ resp' = IF out = "ok" THEN Response(200, "transactions") ELSE ExceptStr
    /\ UNCHANGED <<users, tokens, backend, now, client, provisioned>>

Transactions ==
    \E email \in Emails, acct \in SdkOutcome, hist \in SdkOutcome :
        get_transactions(email, acct, hist)

\* isinstance(payment_processor, IOTAPaymentController) in post_transfer_funds
TransferByEmail == backend = "IOTA"

post_transfer_funds(email, acct, exec) ==
    LET first == IF TransferByEmail THEN "ok" ELSE acct
        out   == IF first = "ok" THEN exec ELSE first
        from  == IF TransferByEmail THEN email ELSE Address(email)
    IN
    /\ HasUser(email)
    /\ req' = [NoReq EXCEPT !.route = "transfer", !.email = email,
                            !.acct = IF TransferByEmail THEN "none" ELSE acct,
                            !.sdk = IF first = "ok" THEN exec ELSE "none"]
    /\ calls' = (IF TransferByEmail THEN <<>> ELSE <<Call("get_account_data", email)>>)
                \o (IF first = "ok" THEN <<Call("execute_transaction", from)>> ELSE <<>>)
    /\ resp' = IF out = "ok" THEN Response(200, "transaction") ELSE ExceptStr
    /\ UNCHANGED <<users, tokens, backend, now, client, provisioned>>

Transfer ==
    \E email \in Emails, acct \in SdkOutcome, exec \in SdkOutcome :
        post_transfer_funds(email, acct, exec)

----------------------------------------------------------------------------
(* The clock *)

Tick ==
    /\ now < MaxTime
    /\ now' = now + 1
    /\ UNCHANGED <<users, tokens, backend, client, provisioned, req, resp, calls>>

\* the /user routes
Next ==
    \/ Register
    \/ Login
    \/ SocialLogin
    \/ GetDetails
    \/ PatchDetails
    \/ Refresh
    \/ Tick

Spec == Init /\ [][Next]_vars

\* the /wallet routes, with the registrations that create their users
WalletNext ==
    \/ Register
    \/ Balance
    \/ RequestFunds
    \/ ValidateTransactions
    \/ FilterTransactions
    \/ WalletAddress
    \/ Transactions
    \/ Transfer

WalletSpec == Init /\ [][WalletNext]_vars

----------------------------------------------------------------------------
(* Properties *)

Called(op, arg) == \E i \in 1..Len(calls) : calls[i] = Call(op, arg)

CalledOp(op) == \E i \in 1..Len(calls) : calls[i].op = op

IsSigned(t, kind, sub) == t.sig /\ t.kind = kind /\ t.sub = sub

CarriesNoToken == resp.access = NoToken /\ resp.refresh = NoToken

UpstreamRoutes == {"login", "social-login", "get_details", "patch_details", "register"}

\* C1: a login whose upstream /token call answered 200 and whose local
\* password check passed is answered 200 with a non-empty access token and a
\* non-empty refresh token.
C1_LoginSuccess ==
    (req.route = "login" /\ req.up = 200 /\ authenticate_user(req.email, req.password))
        => /\ resp.status = 200
           /\ resp.access # NoToken /\ IsSigned(resp.access, "access", req.email)
           /\ resp.refresh # NoToken /\ IsSigned(resp.refresh, "refresh", req.email)

C1_Witness ==
    /\ req.route = "login" /\ req.up = 200
    /\ authenticate_user(req.email, req.password)
    /\ resp.status = 200 /\ resp.refresh # NoToken

\* C2: a login whose credentials fail the local password check (wrong
\* password, or no local user for the email) is answered 400 whatever status
\* the upstream /token call returned; that step issues no local tokens and
\* leaves the cached-token table as it was.
C2_LoginMismatch ==
    [][(req'.route = "login" /\ now' = now /\ req'.up # ConnectionError
        /\ ~authenticate_user(req'.email, req'.password))
            => /\ resp'.status = 400
               /\ resp'.access = NoToken /\ resp'.refresh = NoToken
               /\ tokens' = tokens
               /\ client' = client]_vars

C2_Witness ==
    /\ req.route = "login" /\ req.up = 200
    /\ HasUser(req.email) /\ ~authenticate_user(req.email, req.password)
    /\ resp.status = 400

\* C3: the users table never holds two rows for one email; a register
\* request the upstream answered with 201 or 409 leaves exactly one row for its
\* email and calls create_account for it, and it inserts a row only when none
\* existed (so the repeated, 409, registration inserts nothing).
C3_OneRowPerEmail ==
    /\ \A e \in Emails : RowCount(e) <= 1
    /\ (req.route = "register" /\ req.up \in {201, 409})
           => /\ RowCount(req.email) = 1
              /\ Called("create_account", req.email)
              /\ calls[Len(calls)] = Call("create_account", req.email)

C3_Witness ==
    /\ req.route = "register" /\ req.up = 409
    /\ ~CalledOp("db.add")
    /\ Called("create_account", req.email)
    /\ RowCount(req.email) = 1

\* C4: a register request the upstream answered with 201 or 409 and whose
\* create_account raised is answered with an error status, not a 2xx, while
\* the user row stays in the table.
C4_PaymentFailureDowngrades ==
    (req.route = "register" /\ req.pay = "raise")
        => /\ resp.status \notin 200..299
           /\ HasUser(req.email)

\* C5: with the Ethereum backend, request_funds is answered 400 "Faucet not
\* available for Ethereum" and calls neither get_account_data nor
\* request_funds.
C5_FaucetUnsupported ==
    (req.route = "request_funds" /\ backend = "Ethereum")
        => /\ resp.status = 400
           /\ resp.body = "Faucet not available for Ethereum"
           /\ ~CalledOp("get_account_data") /\ ~CalledOp("request_funds")

\* C6: balance with the IOTA backend calls get_balance with the email and
\* never get_account_data; with another backend it calls get_account_data
\* with the email first, then get_balance with the resolved address, and no
\* get_balance at all when the resolution raised.
C6_BalanceCallOrder ==
    req.route = "balance"
        => IF backend = "IOTA"
           THEN calls = <<Call("get_balance", req.email)>>
           ELSE /\ Len(calls) >= 1
                /\ calls[1] = Call("get_account_data", req.email)
                /\ IF req.acct = "ok"
                   THEN calls = <<calls[1], Call("get_balance", Address(req.email))>>
                   ELSE Len(calls) = 1 /\ ~CalledOp("get_balance")

C6_Witness ==
    /\ req.route = "balance" /\ backend # "IOTA" /\ req.acct = "ok"
    /\ Len(calls) = 2 /\ calls[2].op = "get_balance"

\* C7: a refresh request with a correctly signed, unexpired refresh token
\* whose subject has a user row is answered 200 with a new access and refresh
\* token for the same subject; with an expired or altered token, or one whose
\* subject has no user row, it is answered 401 without tokens.
C7_RefreshKeepsSubject ==
    [][(req'.route = "refresh" /\ now' = now)
        => IF req'.token.sig /\ now < req'.token.exp /\ HasUser(req'.token.sub)
           THEN /\ resp'.status = 200
                /\ IsSigned(resp'.access, "access", req'.token.sub)
                /\ IsSigned(resp'.refresh, "refresh", req'.token.sub)
                /\ resp'.refresh.exp = now + RefreshTTL
           ELSE /\ resp'.status = 401
                /\ resp'.access = NoToken /\ resp'.refresh = NoToken]_vars

C7_Witness ==
    /\ req.route = "refresh" /\ req.token.sig /\ req.token # LegacyToken
    /\ resp.status = 200 /\ resp.refresh.sub = req.token.sub
    /\ resp.refresh.exp > req.token.exp

\* C8: on every route that calls the upstream market server, a
\* ConnectionError of that call is answered 503.
C8_ConnectionError503 ==
    (req.route \in UpstreamRoutes /\ req.up = ConnectionError) => resp.status = 503

\* C9: on every route that calls the upstream market server, an upstream
\* reply with a non-2xx status (the 409 of register and the local password
\* mismatch of login aside) is answered with that same status and the
\* upstream body.
C9_UpstreamErrorPassThrough ==
    (/\ req.route \in UpstreamRoutes
     /\ req.up # ConnectionError /\ req.up \notin 200..299
     /\ ~(req.route = "register" /\ req.up = 409)
     /\ ~(req.route = "login" /\ ~authenticate_user(req.email, req.password)))
        => /\ resp.status = req.up
           /\ resp.body = "upstream_body"

\* C10: a user row exists for an email exactly when some earlier register
\* for it was answered 201 or 409 upstream, or some earlier social-login
\* answered 201 upstream named it as user_email.
C10_UserIffProvisioned ==
    \A e \in Emails : HasUser(e) <=> e \in provisioned

C10_Witness ==
    /\ req.route = "social-login" /\ req.up = 201 /\ req.pay = "raise"
    /\ HasUser(req.upEmail) /\ req.upEmail \in provisioned
    /\ \E e \in Emails : ~HasUser(e)

WalletRoutes == {"validate_transactions", "address", "filter_transactions_by",
                 "transactions", "balance", "transfer", "request_funds"}

Raised(o) == o \notin {"ok", "none"}

\* C11: on every wallet route, a payment backend call that raises is answered
\* 400 with an error body and never surfaces as an unhandled 500, also when
\* the exception text is not a parseable literal.
C11_BackendFailure400 ==
    (req.route \in WalletRoutes /\ (Raised(req.acct) \/ Raised(req.sdk)))
        => /\ resp.status = 400
           /\ resp.body \in {"error", "error_dict"}

\* the upstream call of the last request succeeded: 200 for /login, 201 for
\* /social-login
UpstreamSucceeded ==
    \/ req.route = "login" /\ req.up = 200
    \/ req.route = "social-login" /\ req.up = 201

\* every cleanup the last request scheduled comes after its add_token for the
\* same email
CleanupAfterCaching ==
    \A i \in 1..Len(calls) :
        calls[i].op = "add_task"
            => \E j \in 1..(i - 1) : calls[j] = Call("add_token", calls[i].arg)

\* the users table holds a row for the email once the step is done
HasUserAfter(email) == \E r \in BagToSet(users') : r.email = email

\* C12: a login or social-login step caches an upstream token only when its
\* upstream call succeeded (200 for /login, 201 for /social-login) and only
\* for an email that has a user row then; a step whose upstream call failed
\* leaves the tokens table unchanged and schedules no cleanup; a cleanup is
\* scheduled only after the token was cached.
C12_TokenCaching ==
    [][(now' = now /\ req'.route \in {"login", "social-login"})
        => /\ (tokens' # tokens \/ CalledOp("add_token")')
                  => /\ UpstreamSucceeded'
                     /\ \A row \in tokens' \ tokens : HasUserAfter(row.user_email)
                     /\ \A i \in 1..Len(calls') :
                            calls'[i].op = "add_token" => HasUserAfter(calls'[i].arg)
           /\ ~UpstreamSucceeded'
                  => /\ tokens' = tokens
                     /\ ~CalledOp("add_task")'
           /\ CleanupAfterCaching']_vars

C12_Witness ==
    /\ req.route = "social-login" /\ req.up = 201
    /\ Called("db.add", req.upEmail)
    /\ Called("add_token", req.upEmail) /\ Called("add_task", req.upEmail)
    /\ \E row \in tokens : row.user_email = req.upEmail
    /\ HasUser(req.upEmail)

====
